---- MODULE Spec2Model ----
(***************************************************************************)
(* Model of tools/changed.py, the BB-DEV-O2 website change detector:       *)
(* the coordinator (main), its per-cycle worker threads, the retry loop of *)
(* fetch_url_content, the reconciliation of results into the state map and *)
(* the state file written by save_state and read by load_state.            *)
(***************************************************************************)
EXTENDS Integers, Sequences, FiniteSets, TLC

(* Bounds of the model. *)
MaxLines == 2
MaxCycles == 2
MaxThreads == 2

(* def fetch_url_content(url, timeout=30, max_retries=3, user_agent=None) *)
max_retries == 3

VARIABLES
  targets,          \* main: targets = load_targets(args.targets_file)
  threads,          \* args.threads
  running,          \* global flag `running`
  state_file,       \* the state file on disk
  data,             \* main: the in-memory state map
  mainpc,           \* position of the coordinator in main
  cycle,            \* number of check cycles started; the clock read by datetime.now()
  work_queue,       \* queue.Queue of the current cycle: the items not yet taken
  unfinished_tasks, \* queue.Queue.unfinished_tasks of work_queue
  result_queue,     \* queue.Queue of (target, new_hash) of the current cycle
  wpc,              \* position of each worker thread of the current cycle
  wtarget,          \* worker local `target`
  wattempt,         \* fetch_url_content local `attempt`
  wcontent,         \* worker local `content`
  wlast,            \* outcome of the worker's latest HTTP attempt
  wcalls,           \* HTTP attempts made by the worker's current fetch_url_content call
  notifications,    \* the calls of send_email_notification made so far, in order
  check_start,      \* check_count of every record when the current cycle started
  wsleeps,          \* backoff sleeps of the worker's current fetch_url_content call
  wdelay,           \* fetch_url_content local `wait_time`, in seconds (0: not set)
  created,          \* the targets whose record main created with the default values
  saved_cycle,      \* the latest cycle that reached its save_state call (line 459)
  old_workers       \* worker threads of earlier cycles that had not ended when their
                    \* cycle was left; worker() returns only once `running` is false

vars == <<targets, threads, running, state_file, data, mainpc, cycle, work_queue,
          unfinished_tasks, result_queue, wpc, wtarget, wattempt, wcontent, wlast,
          wcalls, notifications, check_start, wsleeps, wdelay, created, saved_cycle,
          old_workers>>

wvars == <<wpc, wtarget, wattempt, wcontent, wlast, wcalls, wsleeps, wdelay>>

(***************************************************************************)
(* Python values.  None and a string are kept apart by a tag, so that the  *)
(* empty byte string b'' and None are different values.                    *)
(***************************************************************************)
None == [none |-> TRUE, val |-> ""]
Some(v) == [none |-> FALSE, val |-> v]

(* Truth value of `content` in `if content:` -- None and b'' are both false. *)
Truthy(x) == ~x.none /\ x.val # ""

(* Response bodies the monitored sites can serve. *)
Contents == {"", "A", "B"}

(* hashlib.sha256(content).hexdigest(), on the bodies of Contents (first 8 hex digits). *)
calculate_hash(content) ==
  CASE content = "" -> "e3b0c442"
    [] content = "A" -> "559aead0"
    [] content = "B" -> "df7e70e5"

(* datetime.now().isoformat(): the clock is the number of the running cycle. *)
now == ToString(cycle)

(***************************************************************************)
(* load_targets.  A line is a sequence of lexical tokens: " " is white     *)
(* space, "#" the comment sign, "http://" and "https://" the schemes.      *)
(***************************************************************************)
RECURSIVE lstrip(_)
lstrip(s) == IF s # <<>> /\ Head(s) = " " THEN lstrip(Tail(s)) ELSE s

RECURSIVE rstrip(_)
rstrip(s) == IF s # <<>> /\ s[Len(s)] = " " THEN rstrip(SubSeq(s, 1, Len(s) - 1)) ELSE s

strip(s) == rstrip(lstrip(s))

(* re.match(r'^https?://', line) *)
HasScheme(line) == line # <<>> /\ Head(line) \in {"http://", "https://"}

RECURSIVE load_targets(_)
load_targets(f) ==
  IF f = <<>> THEN <<>>
  ELSE LET line == strip(Head(f))
           rest == load_targets(Tail(f))
       IN IF line # <<>> /\ Head(line) # "#"
          THEN <<IF HasScheme(line) THEN line ELSE <<"http://">> \o line>> \o rest
          ELSE rest

(* Lines a targets file is made of, and the targets files of at most MaxLines lines. *)
SampleLines == {<<>>, <<"#", "x">>, <<"x">>, <<" ", "http://", "x", " ">>, <<"y">>}
TargetsFiles == UNION {[1..n -> SampleLines] : n \in 0..MaxLines}

(***************************************************************************)
(* The state map and the state file.                                       *)
(***************************************************************************)
NewRecord ==
  [hash |-> None, last_checked |-> None, last_changed |-> None,
   check_count |-> 0, change_count |-> 0, error_count |-> 0]

(* JSON values: null, a string or a number. *)
JNull == [t |-> "null", s |-> "", n |-> 0]
JStr(v) == [t |-> "string", s |-> v, n |-> 0]
JNum(k) == [t |-> "number", s |-> "", n |-> k]
(* ToJson with None written as a string instead of null. *)
ToJsonNoneAsString(x) == JStr(x.val)

ToJson(x) == IF x.none THEN JNull ELSE JStr(x.val)
FromJson(j) == IF j.t = "null" THEN None ELSE Some(j.s)

(* json.dump(data, f): the document a complete write leaves in the file. *)
JsonDump(d) ==
  [k \in DOMAIN d |->
     [hash |-> ToJson(d[k].hash), last_checked |-> ToJson(d[k].last_checked),
      last_changed |-> ToJson(d[k].last_changed), check_count |-> JNum(d[k].check_count),
      change_count |-> JNum(d[k].change_count), error_count |-> JNum(d[k].error_count)]]

(* json.load(f) of a complete document. *)
JsonLoad(doc) ==
  [k \in DOMAIN doc |->
     [hash |-> FromJson(doc[k].hash), last_checked |-> FromJson(doc[k].last_checked),
      last_changed |-> FromJson(doc[k].last_changed), check_count |-> doc[k].check_count.n,
      change_count |-> doc[k].change_count.n, error_count |-> doc[k].error_count.n]]

EmptyMap == [k \in {} |-> NewRecord]
Absent == [kind |-> "absent", doc |-> JsonDump(EmptyMap)]
Complete(d) == [kind |-> "json", doc |-> JsonDump(d)]
(* A file opened with mode 'w' (truncated) whose document was not written to the end. *)
Partial == [kind |-> "partial", doc |-> JsonDump(EmptyMap)]

(* load_state: {} when the file is missing or json.load raises. *)
load_state(file) == IF file.kind = "json" THEN JsonLoad(file.doc) ELSE EmptyMap

(* save_state: open(state_file, 'w') truncates, json.dump writes; every exception is
   logged and swallowed.  outcome is what the file system does to the call. *)
SaveOutcomes == {"ok", "open_fails", "dump_fails"}
save_state(d, file, outcome) ==
  CASE outcome = "ok" -> Complete(d)
    [] outcome = "open_fails" -> file
    [] outcome = "dump_fails" -> Partial

(* The state file an earlier run of the program left: one baseline check of http://x. *)
EarlierRun ==
  [k \in {<<"http://", "x">>} |->
     [NewRecord EXCEPT !.hash = Some(calculate_hash("A")), !.last_checked = Some("0"),
                       !.last_changed = Some("0"), !.check_count = 1]]

(* main, lines 376-386: records for the targets the state file does not know. *)
InitData(loaded, tgts) ==
  [k \in DOMAIN loaded \cup {tgts[i] : i \in 1..Len(tgts)} |->
     IF k \in DOMAIN loaded THEN loaded[k] ELSE NewRecord]

Workers == 1..MaxThreads

Min(a, b) == IF a <= b THEN a ELSE b

(* num_threads raised to 1 when the configured count is 0 or negative. *)
num_threadsAtLeastOne ==
  IF Min(threads, Len(targets)) >= 1 THEN Min(threads, Len(targets)) ELSE 1

(* num_threads without the clamp to the number of targets. *)
num_threadsNoClamp == threads

(* num_threads = min(args.threads, len(targets)) *)
num_threads == Min(threads, Len(targets))

Init ==
  /\ \E f \in TargetsFiles : targets = load_targets(f)
  /\ threads \in -1..MaxThreads
  /\ running = TRUE
  /\ state_file \in {Absent, Complete(EarlierRun)}
  /\ data = InitData(load_state(state_file), targets)
  /\ mainpc = "loop"
  /\ cycle = 0
  /\ work_queue = <<>>
  /\ unfinished_tasks = 0
  /\ result_queue = <<>>
  /\ wpc = [w \in Workers |-> "none"]
  /\ wtarget = [w \in Workers |-> <<>>]
  /\ wattempt = [w \in Workers |-> 0]
  /\ wcontent = [w \in Workers |-> None]
  /\ wlast = [w \in Workers |-> "none"]
  /\ wcalls = [w \in Workers |-> 0]
  /\ notifications = <<>>
  /\ check_start = [k \in DOMAIN data |-> data[k].check_count]
  /\ wsleeps = [w \in Workers |-> 0]
  /\ wdelay = [w \in Workers |-> 0]
  /\ created = DOMAIN data \ DOMAIN load_state(state_file)
  /\ saved_cycle = 0
  /\ old_workers = 0

(***************************************************************************)
(* setup_signal_handlers: SIGINT or SIGTERM clears the global flag.        *)
(***************************************************************************)
Signal ==
  /\ mainpc # "done"
  /\ running
  /\ running' = FALSE
  /\ UNCHANGED <<targets, threads, state_file, data, mainpc, cycle, work_queue,
                 unfinished_tasks, result_queue, wvars, notifications, check_start,
                 created, saved_cycle, old_workers>>

(***************************************************************************)
(* worker(work_queue, result_queue, user_agent)                            *)
(***************************************************************************)
(* `while running` is false: the thread ends. *)
WorkerExit(w) ==
  /\ wpc[w] = "check"
  /\ ~running
  /\ wpc' = [wpc EXCEPT ![w] = "exited"]
  /\ UNCHANGED <<targets, threads, running, state_file, data, mainpc, cycle, work_queue,
                 unfinished_tasks, result_queue, wtarget, wattempt, wcontent, wlast,
                 wcalls, notifications, check_start, wsleeps, wdelay, created,
                 saved_cycle, old_workers>>

(* `while running` is true and target = work_queue.get(timeout=1) returns an item.  The
   test of the flag and the get are one step: the get does not read the flag. *)
WorkerGet(w) ==
  /\ wpc[w] = "check"
  /\ running
  /\ work_queue # <<>>
  /\ wtarget' = [wtarget EXCEPT ![w] = Head(work_queue)]
  /\ work_queue' = Tail(work_queue)
  /\ wpc' = [wpc EXCEPT ![w] = "fetch"]
  /\ UNCHANGED <<targets, threads, running, state_file, data, mainpc, cycle,
                 unfinished_tasks, result_queue, wattempt, wcontent, wlast, wcalls,
                 notifications, check_start, wsleeps, wdelay, created, saved_cycle,
                 old_workers>>

(* `while running` is true and the get times out: queue.Empty, `pass`, and the loop
   goes round. *)
WorkerEmpty(w) ==
  /\ wpc[w] = "check"
  /\ running
  /\ work_queue = <<>>
  /\ UNCHANGED vars

(* What one urlopen(req, timeout=timeout) does: the body, or one of the exceptions of
   the four except clauses of fetch_url_content. *)
AttemptFailures == {"HTTPError", "URLError", "socket.timeout", "Exception"}
AttemptOutcomes ==
  [kind : {"ok"}, body : Contents] \cup [kind : AttemptFailures, body : {""}]

(* for attempt in range(max_retries) *)
InRange(attempt) == attempt < max_retries

(* IsLastAttempt with the test off by one: the function gives up one attempt early. *)
IsLastAttemptEarly(attempt) == attempt = max_retries - 2

(* if attempt == max_retries - 1: return None *)
IsLastAttempt(attempt) == attempt = max_retries - 1

(* 2 ** attempt *)
RECURSIVE Pow2(_)
Pow2(k) == IF k = 0 THEN 1 ELSE 2 * Pow2(k - 1)

(* random.uniform(0, 1) is 0 + (1 - 0) * random.random(): the smallest and the largest
   value random.random() returns, 0.0 and 1 - 2^-53. *)
Jitters == {"0.0", "1 - 2^-53"}

(* wait_time with the attempts counted from 1 instead of 0. *)
wait_timeFromOne(attempt, jitter) ==
  IF jitter = "0.0" THEN Pow2(attempt + 1) ELSE Pow2(attempt + 1) + 1

(* wait_time = (2 ** attempt) + random.uniform(0, 1), in seconds.  The sum is a double:
   2^attempt + (1 - 2^-53) lies half a unit in the last place or less under
   2^attempt + 1 and is rounded (to nearest, ties to even) to 2^attempt + 1. *)
wait_time(attempt, jitter) ==
  IF jitter = "0.0" THEN Pow2(attempt) ELSE Pow2(attempt) + 1

(* fetch_url_content, one pass of the loop body: the attempt, and after a failed
   attempt that is not the last the backoff sleep and the step of the loop. *)
WorkerAttempt(w) ==
  /\ wpc[w] = "fetch"
  /\ IF InRange(wattempt[w])
     THEN \E o \in AttemptOutcomes :
            /\ wcalls' = [wcalls EXCEPT ![w] = @ + 1]
            /\ IF o.kind = "ok"
               THEN /\ wlast' = [wlast EXCEPT ![w] = "ok"]
                    /\ wcontent' = [wcontent EXCEPT ![w] = Some(o.body)]
                    /\ wpc' = [wpc EXCEPT ![w] = "process"]
                    /\ wdelay' = [wdelay EXCEPT ![w] = 0]
                    /\ UNCHANGED <<wattempt, wsleeps>>
               ELSE /\ wlast' = [wlast EXCEPT ![w] = "failed"]
                    /\ IF IsLastAttempt(wattempt[w])
                       THEN /\ wcontent' = [wcontent EXCEPT ![w] = None]
                            /\ wpc' = [wpc EXCEPT ![w] = "process"]
                            /\ wdelay' = [wdelay EXCEPT ![w] = 0]
                            /\ UNCHANGED <<wattempt, wsleeps>>
                       ELSE \* lines 153-155: time.sleep(wait_time)
                            /\ \E jitter \in Jitters :
                                 wdelay' =
                                   [wdelay EXCEPT ![w] = wait_time(wattempt[w], jitter)]
                            /\ wsleeps' = [wsleeps EXCEPT ![w] = @ + 1]
                            /\ wattempt' = [wattempt EXCEPT ![w] = @ + 1]
                            /\ UNCHANGED <<wcontent, wpc>>
     ELSE \* line 157: the loop ran out
          /\ wcontent' = [wcontent EXCEPT ![w] = None]
          /\ wpc' = [wpc EXCEPT ![w] = "process"]
          /\ wdelay' = [wdelay EXCEPT ![w] = 0]
          /\ UNCHANGED <<wattempt, wlast, wcalls, wsleeps>>
  /\ UNCHANGED <<targets, threads, running, state_file, data, mainpc, cycle, work_queue,
                 unfinished_tasks, result_queue, wtarget, notifications, check_start,
                 created, saved_cycle, old_workers>>

(* lines 334-338: the result a worker puts on result_queue. *)
worker_result(target, content) ==
  IF Truthy(content) THEN <<target, Some(calculate_hash(content.val))>>
  ELSE <<target, None>>

(* The worker's locals once a task is over. *)
WorkerRest(w) ==
  /\ wpc' = [wpc EXCEPT ![w] = "check"]
  /\ wtarget' = [wtarget EXCEPT ![w] = <<>>]
  /\ wattempt' = [wattempt EXCEPT ![w] = 0]
  /\ wcontent' = [wcontent EXCEPT ![w] = None]
  /\ wlast' = [wlast EXCEPT ![w] = "none"]
  /\ wcalls' = [wcalls EXCEPT ![w] = 0]
  /\ wsleeps' = [wsleeps EXCEPT ![w] = 0]
  /\ wdelay' = [wdelay EXCEPT ![w] = 0]

(* WorkerProcess without work_queue.task_done(). *)
WorkerProcessNoTaskDone(w) ==
  /\ wpc[w] = "process"
  /\ result_queue' = Append(result_queue, worker_result(wtarget[w], wcontent[w]))
  /\ WorkerRest(w)
  /\ UNCHANGED <<targets, threads, running, state_file, data, mainpc, cycle, work_queue,
                 unfinished_tasks, notifications, check_start, created, saved_cycle,
                 old_workers>>

(* lines 334-341: result_queue.put(...) and work_queue.task_done(). *)
WorkerProcess(w) ==
  /\ wpc[w] = "process"
  /\ result_queue' = Append(result_queue, worker_result(wtarget[w], wcontent[w]))
  /\ unfinished_tasks' = unfinished_tasks - 1
  /\ WorkerRest(w)
  /\ UNCHANGED <<targets, threads, running, state_file, data, mainpc, cycle, work_queue,
                 notifications, check_start, created, saved_cycle, old_workers>>

(* lines 345-350: an exception other than queue.Empty escapes while the target is
   fetched (the statements of fetch_url_content outside its try, lines 110-128 and
   153-155): it is logged and work_queue.task_done() is called; nothing is put on
   result_queue. *)
WorkerError(w) ==
  /\ wpc[w] = "fetch"
  /\ unfinished_tasks' = unfinished_tasks - 1
  /\ WorkerRest(w)
  /\ UNCHANGED <<targets, threads, running, state_file, data, mainpc, cycle, work_queue,
                 result_queue, notifications, check_start, created, saved_cycle,
                 old_workers>>

(***************************************************************************)
(* main(args): the monitoring loop.                                        *)
(***************************************************************************)
(* The positions of a worker thread that has not ended. *)
Alive == {"check", "fetch", "process"}

(* lines 391-414: `while running` is true; the two new queues, the targets put on
   work_queue and threads 1..started started.  The threads of the cycle before keep
   the queues of their cycle, which main has dropped: they change nothing main reads and
   are only counted, in old_workers. *)
Seed(started) ==
  /\ cycle' = cycle + 1
  /\ work_queue' = targets
  /\ unfinished_tasks' = Len(targets)
  /\ result_queue' = <<>>
  /\ wpc' = [w \in Workers |-> IF w <= started THEN "check" ELSE "none"]
  /\ wtarget' = [w \in Workers |-> <<>>]
  /\ wattempt' = [w \in Workers |-> 0]
  /\ wcontent' = [w \in Workers |-> None]
  /\ wlast' = [w \in Workers |-> "none"]
  /\ wcalls' = [w \in Workers |-> 0]
  /\ wsleeps' = [w \in Workers |-> 0]
  /\ wdelay' = [w \in Workers |-> 0]
  /\ check_start' = [k \in DOMAIN data |-> data[k].check_count]
  /\ old_workers' = old_workers + Cardinality({w \in Workers : wpc[w] \in Alive})
  /\ UNCHANGED <<targets, threads, running, state_file, data, notifications, created,
                 saved_cycle>>

(* StartCycle with the test of `running` left out (`while True`). *)
StartCycleNoFlag ==
  /\ mainpc = "loop"
  /\ cycle < MaxCycles
  /\ Seed(num_threads)
  /\ mainpc' = "join"

(* lines 391-414, every t.start() returning: main goes on to work_queue.join(). *)
StartCycle ==
  /\ mainpc = "loop"
  /\ running
  /\ cycle < MaxCycles
  /\ Seed(num_threads)
  /\ mainpc' = "join"

(* lines 391-414 and 482-485: a t.start() raises RuntimeError (the system cannot start
   another thread) after `started` threads were started; the except clause of the main
   loop logs it and sleeps 30 seconds. *)
StartCycleError ==
  /\ mainpc = "loop"
  /\ running
  /\ cycle < MaxCycles
  /\ \E started \in 0..(num_threads - 1) : Seed(started)
  /\ mainpc' = "error"

(* line 485: time.sleep(30) is over, back to `while running`. *)
ErrorSleep ==
  /\ mainpc = "error"
  /\ mainpc' = "loop"
  /\ UNCHANGED <<targets, threads, running, state_file, data, cycle, work_queue,
                 unfinished_tasks, result_queue, wvars, notifications, check_start,
                 created, saved_cycle, old_workers>>


(* work_queue.join(): returns once every item put has been marked done. *)
Join ==
  /\ mainpc = "join"
  /\ unfinished_tasks = 0
  /\ mainpc' = "results"
  /\ UNCHANGED <<targets, threads, running, state_file, data, cycle, work_queue,
                 unfinished_tasks, result_queue, wvars, notifications, check_start,
                 created, saved_cycle, old_workers>>

(* elif new_hash != current_hash, with both hashes present: a change is detected. *)
ChangeDetected(rec, new_hash) ==
  ~new_hash.none /\ ~rec.hash.none /\ new_hash # rec.hash

(* Reconciled with the new hash stored whether or not the notification was sent. *)
ReconciledCommitsFailed(rec, new_hash, sent_ok) ==
  LET checked == [rec EXCEPT !.check_count = @ + 1, !.last_checked = Some(now)]
  IN IF new_hash.none THEN [checked EXCEPT !.error_count = @ + 1]
     ELSE IF rec.hash.none
          THEN [checked EXCEPT !.hash = new_hash, !.last_changed = Some(now)]
     ELSE IF new_hash # rec.hash
          THEN IF sent_ok
               THEN [checked EXCEPT !.hash = new_hash, !.last_changed = Some(now),
                                    !.change_count = @ + 1]
               ELSE [checked EXCEPT !.hash = new_hash]
     ELSE checked

(* Reconciled with the change counted before the notification's result is tested. *)
ReconciledCountsFailed(rec, new_hash, sent_ok) ==
  LET checked == [rec EXCEPT !.check_count = @ + 1, !.last_checked = Some(now)]
  IN IF new_hash.none THEN [checked EXCEPT !.error_count = @ + 1]
     ELSE IF rec.hash.none
          THEN [checked EXCEPT !.hash = new_hash, !.last_changed = Some(now)]
     ELSE IF new_hash # rec.hash
          THEN IF sent_ok
               THEN [checked EXCEPT !.hash = new_hash, !.last_changed = Some(now),
                                    !.change_count = @ + 1]
               ELSE [checked EXCEPT !.last_changed = Some(now), !.change_count = @ + 1]
     ELSE checked

(* Reconciled without the increment of change_count. *)
ReconciledNoCount(rec, new_hash, sent_ok) ==
  LET checked == [rec EXCEPT !.check_count = @ + 1, !.last_checked = Some(now)]
  IN IF new_hash.none THEN [checked EXCEPT !.error_count = @ + 1]
     ELSE IF rec.hash.none
          THEN [checked EXCEPT !.hash = new_hash, !.last_changed = Some(now)]
     ELSE IF new_hash # rec.hash
          THEN IF sent_ok
               THEN [checked EXCEPT !.hash = new_hash, !.last_changed = Some(now)]
               ELSE checked
     ELSE checked

(* Reconciled without the `continue` of the error branch: the failed result goes on to
   the comparison of the hashes. *)
ReconciledNoContinue(rec, new_hash, sent_ok) ==
  LET checked == [rec EXCEPT !.check_count = @ + 1, !.last_checked = Some(now)]
      failed == IF new_hash.none THEN [checked EXCEPT !.error_count = @ + 1] ELSE checked
  IN IF rec.hash.none
     THEN [failed EXCEPT !.hash = new_hash, !.last_changed = Some(now)]
     ELSE IF new_hash # rec.hash
          THEN IF sent_ok
               THEN [failed EXCEPT !.hash = new_hash, !.last_changed = Some(now),
                                   !.change_count = @ + 1]
               ELSE failed
     ELSE failed

(* lines 426-456: the record of the target after one result; sent_ok is what
   send_email_notification returned when a change was detected. *)
Reconciled(rec, new_hash, sent_ok) ==
  LET checked == [rec EXCEPT !.check_count = @ + 1, !.last_checked = Some(now)]
  IN IF new_hash.none THEN [checked EXCEPT !.error_count = @ + 1]
     ELSE IF rec.hash.none
          THEN [checked EXCEPT !.hash = new_hash, !.last_changed = Some(now)]
     ELSE IF new_hash # rec.hash
          THEN IF sent_ok
               THEN [checked EXCEPT !.hash = new_hash, !.last_changed = Some(now),
                                    !.change_count = @ + 1]
               ELSE checked
     ELSE checked

(* lines 423-456: the whole loop `while not result_queue.empty()` run from the map d over
   the results q in the order of q, with send_email_notification returning sent_ok every
   time: the map it leaves and the notifications (target, old_hash, new_hash) it sends. *)
RECURSIVE ReconcileAll(_, _, _)
ReconcileAll(d, q, sent_ok) ==
  IF q = <<>> THEN [data |-> d, sent |-> {}]
  ELSE LET target == Head(q)[1]
           new_hash == Head(q)[2]
           rec == d[target]
           rest == ReconcileAll([d EXCEPT ![target] = Reconciled(rec, new_hash, sent_ok)],
                                Tail(q), sent_ok)
       IN [data |-> rest.data,
           sent |-> rest.sent \cup
                      IF ChangeDetected(rec, new_hash)
                      THEN {<<target, rec.hash.val, new_hash.val>>}
                      ELSE {}]

(* lines 423-456: one pass of `while not result_queue.empty()`. *)
Reconcile ==
  /\ mainpc = "results"
  /\ result_queue # <<>>
  /\ LET target == Head(result_queue)[1]
         new_hash == Head(result_queue)[2]
         rec == data[target]
     IN \E sent_ok \in BOOLEAN :
          /\ ChangeDetected(rec, new_hash) \/ ~sent_ok
          /\ notifications' =
               IF ChangeDetected(rec, new_hash)
               THEN Append(notifications,
                           [cycle |-> cycle, target |-> target, old_hash |-> rec.hash.val,
                            new_hash |-> new_hash.val, ok |-> sent_ok])
               ELSE notifications
          /\ data' = [data EXCEPT ![target] = Reconciled(rec, new_hash, sent_ok)]
  /\ result_queue' = Tail(result_queue)
  /\ UNCHANGED <<targets, threads, running, state_file, mainpc, cycle, work_queue,
                 unfinished_tasks, wvars, check_start, created, saved_cycle, old_workers>>

(* line 459: save_state(data, state_file) once result_queue is empty. *)
SaveCycle ==
  /\ mainpc = "results"
  /\ result_queue = <<>>
  /\ \E outcome \in SaveOutcomes : state_file' = save_state(data, state_file, outcome)
  /\ saved_cycle' = cycle
  /\ mainpc' = "sleep"
  /\ UNCHANGED <<targets, threads, running, data, cycle, work_queue, unfinished_tasks,
                 result_queue, wvars, notifications, check_start, created, old_workers>>

(* lines 461-480: the sleep until the next cycle, in slices of 10 seconds. *)
Sleep ==
  /\ mainpc = "sleep"
  /\ mainpc' = "loop"
  /\ UNCHANGED <<targets, threads, running, state_file, data, cycle, work_queue,
                 unfinished_tasks, result_queue, wvars, notifications, check_start,
                 created, saved_cycle, old_workers>>

(* lines 487-490: `running` is false; the last save_state and the end of main. *)
FinalSave ==
  /\ mainpc = "loop"
  /\ ~running
  /\ \E outcome \in SaveOutcomes : state_file' = save_state(data, state_file, outcome)
  /\ mainpc' = "done"
  /\ UNCHANGED <<targets, threads, running, data, cycle, work_queue, unfinished_tasks,
                 result_queue, wvars, notifications, check_start, created, saved_cycle,
                 old_workers>>

Next ==
  \/ Signal
  \/ StartCycle
  \/ StartCycleError
  \/ ErrorSleep
  \/ Join
  \/ Reconcile
  \/ SaveCycle
  \/ Sleep
  \/ FinalSave
  \/ \E w \in Workers : WorkerExit(w)
  \/ \E w \in Workers : WorkerGet(w)
  \/ \E w \in Workers : WorkerEmpty(w)
  \/ \E w \in Workers : WorkerAttempt(w)
  \/ \E w \in Workers : WorkerProcess(w)
  \/ \E w \in Workers : WorkerError(w)

Spec == Init /\ [][Next]_vars

(***************************************************************************)
(* The runs in which no SIGINT or SIGTERM arrives, with the scheduling the *)
(* threads get: main and every worker thread keep being run, and every     *)
(* urlopen ends (with a body or an exception) within its timeout.          *)
(***************************************************************************)
NoStopNext ==
  \/ StartCycle
  \/ StartCycleError
  \/ ErrorSleep
  \/ Join
  \/ Reconcile
  \/ SaveCycle
  \/ Sleep
  \/ \E w \in Workers : WorkerGet(w)
  \/ \E w \in Workers : WorkerEmpty(w)
  \/ \E w \in Workers : WorkerAttempt(w)
  \/ \E w \in Workers : WorkerProcess(w)
  \/ \E w \in Workers : WorkerError(w)

NoStopSpec ==
  /\ Init
  /\ [][NoStopNext]_vars
  /\ WF_vars(Join)
  /\ WF_vars(Reconcile)
  /\ WF_vars(SaveCycle)
  /\ \A w \in Workers :
       WF_vars(WorkerGet(w)) /\ WF_vars(WorkerAttempt(w)) /\ WF_vars(WorkerProcess(w))

(***************************************************************************)
(* Helpers of the properties.                                              *)
(***************************************************************************)
(* How often x occurs in the sequence s. *)
Occurrences(s, x) == Cardinality({i \in 1..Len(s) : s[i] = x})

(* The targets of the results on a result queue. *)
ResultTargets(q) == [i \in 1..Len(q) |-> q[i][1]]

(* The step taken is one pass of the loop over result_queue. *)
ReconcileStep ==
  mainpc = "results" /\ result_queue # <<>> /\ result_queue' = Tail(result_queue)

(* The step taken is a call of save_state. *)
SaveStep ==
  \/ mainpc = "results" /\ mainpc' = "sleep"
  \/ mainpc = "loop" /\ mainpc' = "done"

(* The step taken is worker w putting its result and marking the task done. *)
PutStep(w) == cycle' = cycle /\ wpc[w] = "process" /\ wpc'[w] = "check"

(* The step taken is worker w leaving its task through the except clause of lines
   345-350. *)
ErrorStep(w) == cycle' = cycle /\ wpc[w] = "fetch" /\ wpc'[w] = "check"

(* The worker threads that have not ended, while `running` is true: the threads of the
   running cycle in the loop of worker(), and the threads left over from earlier
   cycles, which end only when they find `while running` false. *)
LiveThreads == old_workers + Cardinality({w \in Workers : wpc[w] \in Alive})

(* The step taken is an HTTP attempt of worker w that failed. *)
FailedAttemptStep(w) == wcalls'[w] = wcalls[w] + 1 /\ wlast'[w] = "failed"

Last(s) == s[Len(s)]

Max(a, b) == IF a >= b THEN a ELSE b

(* The worker threads the step taken has started. *)
Spawned == {w \in Workers : wpc'[w] = "check"}

(* The orders in which the results of the queue q can be taken. *)
Orders(q) == {[i \in 1..Len(q) |-> q[p[i]]] : p \in Permutations(1..Len(q))}

(* Two outcomes of the reconcile loop agree on the hash and the counters of every record
   and on the set of notifications sent. *)
SameOutcome(a, b) ==
  /\ a.sent = b.sent
  /\ \A t \in DOMAIN a.data :
       /\ a.data[t].hash = b.data[t].hash
       /\ a.data[t].check_count = b.data[t].check_count
       /\ a.data[t].change_count = b.data[t].change_count
       /\ a.data[t].error_count = b.data[t].error_count

(***************************************************************************)
(* C1.  After the stop flag is set while a cycle is in progress, the wait  *)
(* work_queue.join() eventually returns.  Stated by what a run that ends   *)
(* can refute: while the coordinator waits in join for unfinished tasks    *)
(* with the flag cleared, some worker thread of the cycle is still alive   *)
(* (with none alive no step can lower unfinished_tasks, and join waits     *)
(* forever).                                                               *)
(***************************************************************************)
C1Claim ==
  (/\ ~running
   /\ mainpc = "join"
   /\ unfinished_tasks > 0
   /\ num_threads >= 1)
  => \E w \in Workers : wpc[w] \in {"check", "fetch", "process"}

(***************************************************************************)
(* C2.  Completion barrier: when work_queue.join() returns, result_queue   *)
(* holds exactly one entry for every target put on work_queue in the       *)
(* cycle (as many entries for a target as it was put).                     *)
(***************************************************************************)
C2Claim ==
  (mainpc = "join" /\ unfinished_tasks = 0)
  => /\ Len(result_queue) = Len(targets)
     /\ \A t \in DOMAIN data :
          Occurrences(ResultTargets(result_queue), t) = Occurrences(targets, t)

(***************************************************************************)
(* C3.  For every target list load_targets produces and every target in    *)
(* it, a completed cycle has increased the target's check_count by         *)
(* exactly 1.  Stated for the completed cycles in which every entry put on *)
(* work_queue was reconciled.                                              *)
(***************************************************************************)
C3Claim ==
  (/\ mainpc = "sleep"
   /\ \A t \in DOMAIN data :
        data[t].check_count = check_start[t] + Occurrences(targets, t))
  => \A i \in 1..Len(targets) :
       data[targets[i]].check_count = check_start[targets[i]] + 1

(***************************************************************************)
(* C4.  A record's hash changes only from None to the digest of a          *)
(* successful fetch of that target, or from a digest D to another digest   *)
(* D' in the step in which the notification for (target, D, D') returned   *)
(* success; it never changes otherwise and never goes back to None.        *)
(***************************************************************************)
C4Theorem ==
  [][\A t \in DOMAIN data :
       data'[t].hash # data[t].hash =>
         /\ ReconcileStep
         /\ Head(result_queue)[1] = t
         /\ ~Head(result_queue)[2].none
         /\ data'[t].hash = Head(result_queue)[2]
         /\ \/ data[t].hash.none
            \/ /\ Len(notifications') = Len(notifications) + 1
               /\ Last(notifications') =
                    [cycle |-> cycle, target |-> t, old_hash |-> data[t].hash.val,
                     new_hash |-> data'[t].hash.val, ok |-> TRUE]]_vars

(* A hash was replaced after a notification that succeeded, for a target whose
   notification had failed before. *)
C4Witness ==
  \E i, j \in 1..Len(notifications) :
    /\ i < j
    /\ ~notifications[i].ok
    /\ notifications[j].ok
    /\ notifications[j].target = notifications[i].target
    /\ data[notifications[j].target].hash = Some(notifications[j].new_hash)

C6Claim ==
  [][/\ \A w \in Workers :
          (PutStep(w) /\ ~wcontent[w].none) =>
            result_queue' =
              Append(result_queue, <<wtarget[w], Some(calculate_hash(wcontent[w].val))>>)
     /\ ReconcileStep =>
          LET t == Head(result_queue)[1]
              new_hash == Head(result_queue)[2]
          IN (~new_hash.none /\ data[t].hash.none) =>
               /\ data'[t].hash = new_hash
               /\ data'[t].last_changed = Some(now)
               /\ data'[t].change_count = data[t].change_count
               /\ notifications' = notifications]_vars

(***************************************************************************)
(* C7.  For a target with an established hash D, a result D' # D whose     *)
(* notification returns success leaves the hash D', change_count exactly 1 *)
(* higher and last_changed updated; content A in cycle 1 then content B in *)
(* cycle 2 gives hash h2, check_count 2, change_count 1.                   *)
(***************************************************************************)
C7Theorem ==
  [][ReconcileStep =>
       LET t == Head(result_queue)[1]
           new_hash == Head(result_queue)[2]
       IN (/\ ~new_hash.none
           /\ ~data[t].hash.none
           /\ new_hash # data[t].hash
           /\ Len(notifications') = Len(notifications) + 1
           /\ Last(notifications').ok) =>
            /\ data'[t].hash = new_hash
            /\ data'[t].change_count = data[t].change_count + 1
            /\ data'[t].last_changed = Some(now)
            /\ data'[t].check_count = data[t].check_count + 1
            /\ (/\ data[t].hash = Some(calculate_hash("A"))
                /\ data[t].check_count = 1
                /\ data[t].change_count = 0
                /\ new_hash = Some(calculate_hash("B"))) =>
                 /\ data'[t].hash = Some(calculate_hash("B"))
                 /\ data'[t].check_count = 2
                 /\ data'[t].change_count = 1]_vars

(* A target new to this run was fetched with content A in cycle 1 and content B in
   cycle 2, and the notification of cycle 2 succeeded. *)
C7Witness ==
  \E t \in DOMAIN data :
    /\ t \notin DOMAIN load_state(Complete(EarlierRun))
    /\ Occurrences(targets, t) = 1
    /\ data[t].hash = Some(calculate_hash("B"))
    /\ data[t].check_count = 2
    /\ data[t].change_count = 1
    /\ data[t].last_changed = Some("2")
    /\ \E i \in 1..Len(notifications) :
         notifications[i] =
           [cycle |-> 2, target |-> t, old_hash |-> calculate_hash("A"),
            new_hash |-> calculate_hash("B"), ok |-> TRUE]

(***************************************************************************)
(* C8.  A fetch that failed on all max_retries attempts is passed on as    *)
(* (target, None), and reconciling that result increases error_count and   *)
(* check_count by exactly 1, updates last_checked, leaves hash,            *)
(* last_changed and change_count unchanged and invokes no notification.    *)
(***************************************************************************)
C8Theorem ==
  [][/\ \A w \in Workers :
          (PutStep(w) /\ wcontent[w].none) =>
            result_queue' = Append(result_queue, <<wtarget[w], None>>)
     /\ ReconcileStep =>
          LET t == Head(result_queue)[1]
              new_hash == Head(result_queue)[2]
          IN new_hash.none =>
               /\ data'[t].error_count = data[t].error_count + 1
               /\ data'[t].check_count = data[t].check_count + 1
               /\ data'[t].last_checked = Some(now)
               /\ data'[t].hash = data[t].hash
               /\ data'[t].last_changed = data[t].last_changed
               /\ data'[t].change_count = data[t].change_count
               /\ notifications' = notifications]_vars

(* A target with an established hash failed on all attempts and was reconciled. *)
C8Witness ==
  \E t \in DOMAIN data :
    /\ mainpc = "sleep"
    /\ Occurrences(targets, t) = 1
    /\ data[t].error_count = 1
    /\ data[t].check_count = check_start[t] + 1
    /\ ~data[t].hash.none
    /\ notifications = <<>>

(***************************************************************************)
(* C9.  fetch_url_content makes at most max_retries HTTP attempts, returns *)
(* the content at the first successful attempt, returns None after         *)
(* max_retries failed attempts, and a failed attempt never takes the       *)
(* worker to its exception handler.                                        *)
(***************************************************************************)
C9Theorem ==
  [][\A w \in Workers :
       /\ wpc[w] = "fetch" => wlast[w] # "ok"
       /\ wcalls'[w] = wcalls[w] + 1 =>
            /\ wpc[w] = "fetch"
            /\ wcalls'[w] <= max_retries
            /\ IF wlast'[w] = "ok"
               THEN wpc'[w] = "process" /\ ~wcontent'[w].none
               ELSE /\ unfinished_tasks' = unfinished_tasks
                    /\ result_queue' = result_queue
                    /\ IF wcalls'[w] = max_retries
                       THEN wpc'[w] = "process" /\ wcontent'[w].none
                       ELSE wpc'[w] = "fetch"]_vars

(* A call has failed on every attempt and returned None. *)
C9Witness ==
  \E w \in Workers :
    /\ wpc[w] = "process"
    /\ wcontent[w].none
    /\ wcalls[w] = max_retries
    /\ wlast[w] = "failed"

(***************************************************************************)
(* C10.  Persisting the state is atomic: a save_state call on a state file *)
(* that holds a complete document either leaves the complete new document  *)
(* in the file or leaves the file as it was, so that load_state never sees *)
(* a partially written file.                                               *)
(***************************************************************************)
C10Claim ==
  [][(SaveStep /\ state_file.kind = "json") =>
       (state_file' = Complete(data) \/ state_file' = state_file)]_vars

(***************************************************************************)
(* C11.  Cycles never overlap: when main starts a cycle (puts the targets  *)
(* on a new work_queue), every result of the cycle before has been         *)
(* reconciled, save_state has been called for the cycle before, and no     *)
(* worker of the cycle before is still fetching; on every path through the *)
(* main loop, the path through its except clause included.                 *)
(***************************************************************************)
C11Claim ==
  [][cycle' = cycle + 1 =>
       /\ result_queue = <<>>
       /\ saved_cycle = cycle
       /\ \A w \in Workers : wpc[w] \notin {"fetch", "process"}]_vars

(***************************************************************************)
(* C12.  With the stop flag never set, threads >= 1 and every attempt      *)
(* ending within its timeout, a cycle whose workers were started always    *)
(* completes: join returns, the results are reconciled and the state is    *)
(* saved, also when targets fail on every attempt; and a worker that is    *)
(* idle while targets are queued can take the next one whatever the other  *)
(* workers are doing.                                                      *)
(***************************************************************************)
C12Theorem ==
  /\ (mainpc = "join" /\ threads >= 1) ~> (mainpc = "sleep" /\ saved_cycle = cycle)
  /\ [](\A w \in Workers :
          (wpc[w] = "check" /\ work_queue # <<>>) => ENABLED WorkerGet(w))

(* A worker holds a target that failed on every attempt while the other target of the
   cycle has already been fetched and its result put. *)
C12Witness ==
  \E w \in Workers :
    /\ threads >= 1
    /\ mainpc = "join"
    /\ wpc[w] = "process"
    /\ wcalls[w] = max_retries
    /\ wcontent[w].none
    /\ Len(targets) = 2
    /\ Len(result_queue) = 1

(***************************************************************************)
(* C13.  When an unexpected exception occurs in a worker while it          *)
(* processes a target, the task is marked complete, the failure result     *)
(* (target, None) is put on result_queue for that target, and the worker   *)
(* goes on to the next task.                                               *)
(***************************************************************************)
C13Claim ==
  [][\A w \in Workers :
       ErrorStep(w) =>
         /\ unfinished_tasks' = unfinished_tasks - 1
         /\ result_queue' = Append(result_queue, <<wtarget[w], None>>)
         /\ wpc'[w] = "check"]_vars

C16Claim ==
  mainpc = "results" =>
    \A sent_ok \in BOOLEAN :
      \A q \in Orders(result_queue) :
        SameOutcome(ReconcileAll(data, q, sent_ok),
                    ReconcileAll(data, result_queue, sent_ok))

C18Claim ==
  (/\ running
   /\ saved_cycle >= cycle - 1
   /\ \A i \in 1..Len(targets) :
        targets[i] \in created /\ data[targets[i]].check_count >= cycle - 1) =>
    /\ old_workers = 0
    /\ LiveThreads <= Max(0, num_threads)

(***************************************************************************)
(* C19, as the claim states it.  After failed attempt number k (from 0)    *)
(* with k < max_retries - 1 fetch_url_content sleeps a delay d with        *)
(* 2^k <= d < 2^k + 1 seconds; after the final failed attempt it returns   *)
(* without sleeping, having slept exactly max_retries - 1 times.           *)
(***************************************************************************)
C19Claim ==
  [][\A w \in Workers :
       FailedAttemptStep(w) =>
         IF wattempt[w] < max_retries - 1
         THEN /\ wsleeps'[w] = wsleeps[w] + 1
              /\ Pow2(wattempt[w]) <= wdelay'[w]
              /\ wdelay'[w] < Pow2(wattempt[w]) + 1
         ELSE /\ wsleeps'[w] = wsleeps[w]
              /\ wsleeps'[w] = max_retries - 1
              /\ wpc'[w] = "process"]_vars

(***************************************************************************)
(* C19, amended.  The same with the delay d of the sleep after failed      *)
(* attempt k bounded by 2^k <= d <= 2^k + 1: the sum of 2^k and a jitter   *)
(* below 1 is a double and can be rounded up to 2^k + 1.                   *)
(***************************************************************************)
C19Theorem ==
  [][\A w \in Workers :
       FailedAttemptStep(w) =>
         IF wattempt[w] < max_retries - 1
         THEN /\ wsleeps'[w] = wsleeps[w] + 1
              /\ Pow2(wattempt[w]) <= wdelay'[w]
              /\ wdelay'[w] <= Pow2(wattempt[w]) + 1
         ELSE /\ wsleeps'[w] = wsleeps[w]
              /\ wsleeps'[w] = max_retries - 1
              /\ wpc'[w] = "process"]_vars

(* A call has failed max_retries - 1 times and slept after each failure, the last time
   for the longest delay. *)
C19Witness ==
  \E w \in Workers :
    /\ wpc[w] = "fetch"
    /\ wlast[w] = "failed"
    /\ wattempt[w] = max_retries - 1
    /\ wsleeps[w] = max_retries - 1
    /\ wdelay[w] = Pow2(max_retries - 2) + 1

(***************************************************************************)
(* C20.  For every record this process created with the default values, in *)
(* every state between cycles: hash is None exactly when check_count       *)
(* equals error_count, last_changed is None exactly when hash is None, and *)
(* error_count + change_count <= check_count.                              *)
(***************************************************************************)
C20Theorem ==
  mainpc \in {"loop", "sleep", "error", "done"} =>
    \A t \in created :
      /\ data[t].hash.none <=> data[t].check_count = data[t].error_count
      /\ data[t].last_changed.none <=> data[t].hash.none
      /\ data[t].error_count + data[t].change_count <= data[t].check_count

(* After two cycles one created record has a failed and a successful check, and another
   has only failed checks. *)
C20Witness ==
  /\ mainpc = "sleep"
  /\ \E t, u \in created :
       /\ data[t].check_count = 2
       /\ data[t].error_count = 1
       /\ ~data[t].hash.none
       /\ data[u].check_count = 2
       /\ data[u].error_count = 2
       /\ data[u].hash.none

(***************************************************************************)
(* C21.  With a thread count of 0 or less and a non-empty target list, the *)
(* first cycle spawns no worker and never completes: once it has started,  *)
(* main stays in work_queue.join() (which cannot return), every target     *)
(* stays on work_queue, no result is reconciled, no notification is sent   *)
(* and save_state is never called, whether or not the stop flag is set.    *)
(***************************************************************************)
C21Theorem ==
  (threads <= 0 /\ Len(targets) >= 1 /\ cycle >= 1) =>
    /\ cycle = 1
    /\ mainpc = "join"
    /\ ~ENABLED Join
    /\ \A w \in Workers : wpc[w] = "none"
    /\ old_workers = 0
    /\ work_queue = targets
    /\ unfinished_tasks = Len(targets)
    /\ result_queue = <<>>
    /\ notifications = <<>>
    /\ saved_cycle = 0
    /\ state_file \in {Absent, Complete(EarlierRun)}
    /\ data = InitData(load_state(state_file), targets)

(* The first cycle was started with a negative thread count and two targets, and main
   is still in join after the stop flag was set. *)
C21Witness ==
  /\ threads < 0
  /\ Len(targets) = 2
  /\ cycle = 1
  /\ mainpc = "join"
  /\ ~running

====
